---- MODULE Spec2Model ----
(***************************************************************************)
(* Prompt manager: the storage layer (PromptDB, src/database.py), the      *)
(* entity conversions (Prompt, src/models.py) and the service rules        *)
(* (PromptService, src/services.py) over one MySQL table `prompts`.        *)
(*                                                                         *)
(* Strings are sequences of one-character strings, so that join, split,    *)
(* strip and the LIKE match are computed character by character.           *)
(***************************************************************************)
EXTENDS Integers, Sequences, FiniteSets, TLC

VARIABLES connection, schema, table, nextId, last

vars == <<connection, schema, table, nextId, last>>

(***************************************************************************)
(* Bounds of the model.                                                    *)
(***************************************************************************)
\* AUTO_INCREMENT values handed out by the table: inserts stop after MaxId.
MaxId == 2
\* Longest tag sequence enumerated by the tag round-trip specification.
MaxTags == 2

(***************************************************************************)
(* Python values.                                                          *)
(***************************************************************************)
\* Prompt.id of an entity that was never persisted (id: Optional[int] = None).
\* AUTO_INCREMENT ids start at 1, so 0 is never the id of a row.
NoId == 0

None   == [kind |-> "None"]
Raised == [kind |-> "raise"]
IntV(k)   == [kind |-> "int", val |-> k]
BoolV(b)  == [kind |-> "bool", val |-> b]
ObjV(p)   == [kind |-> "Prompt", val |-> p]
ListV(ps) == [kind |-> "list", val |-> ps]
StrV(str) == [kind |-> "str", val |-> str]

\* The dataclass Prompt.
Prompt(id, text, tags, tool, is_favorite) ==
    [id |-> id, text |-> text, tags |-> tags, tool |-> tool,
     is_favorite |-> is_favorite]

(***************************************************************************)
(* String functions of Python and MySQL used by the code.                  *)
(***************************************************************************)
IsSpace(c) == c = " "

RECURSIVE lstrip(_)
lstrip(s) ==
    IF s = <<>> THEN <<>>
    ELSE IF IsSpace(Head(s)) THEN lstrip(Tail(s)) ELSE s

RECURSIVE rstrip(_)
rstrip(s) ==
    IF s = <<>> THEN <<>>
    ELSE IF IsSpace(s[Len(s)]) THEN rstrip(SubSeq(s, 1, Len(s) - 1)) ELSE s

\* str.strip(): whitespace removed at both ends.
strip(s) == rstrip(lstrip(s))

\* join that leaves the empty entries out.
RECURSIVE join_NonEmpty(_)
join_NonEmpty(tags) ==
    IF tags = <<>> THEN <<>>
    ELSE IF Head(tags) = <<>> THEN join_NonEmpty(Tail(tags))
    ELSE IF join_NonEmpty(Tail(tags)) = <<>> THEN Head(tags)
    ELSE Head(tags) \o <<",">> \o join_NonEmpty(Tail(tags))

\* ",".join(tags)
RECURSIVE join(_)
join(tags) ==
    IF tags = <<>> THEN <<>>
    ELSE IF Len(tags) = 1 THEN tags[1]
    ELSE tags[1] \o <<",">> \o join(Tail(tags))

\* str.split(','): the pieces between commas, empty pieces included;
\* "".split(',') is [""].
RECURSIVE splitFrom(_, _)
splitFrom(s, cur) ==
    IF s = <<>> THEN <<cur>>
    ELSE IF Head(s) = "," THEN <<cur>> \o splitFrom(Tail(s), <<>>)
    ELSE splitFrom(Tail(s), Append(cur, Head(s)))

\* split that loses the piece after the last comma.
split_DropLast(s) ==
    SubSeq(splitFrom(s, <<>>), 1, Len(splitFrom(s, <<>>)) - 1)

split(s) == splitFrom(s, <<>>)

\* [tag.strip() for tag in pieces if tag.strip()]
RECURSIVE stripNonEmpty(_)
stripNonEmpty(pieces) ==
    IF pieces = <<>> THEN <<>>
    ELSE IF strip(Head(pieces)) # <<>>
         THEN <<strip(Head(pieces))>> \o stripNonEmpty(Tail(pieces))
         ELSE stripNonEmpty(Tail(pieces))

\* The tag parsing of Prompt.from_dict: a falsy (empty) tags value gives [].
parseTags(raw) ==
    IF raw = <<>> THEN <<>> ELSE stripNonEmpty(split(raw))

\* Case folding of the table's default (case-insensitive) collation.
Lower(c) ==
    CASE c = "A" -> "a"
      [] c = "B" -> "b"
      [] c = "C" -> "c"
      [] OTHER   -> c

\* MySQL `s LIKE p`: % matches any run of characters, _ any one character,
\* every other character matches itself, ignoring case.
RECURSIVE Like(_, _)
Like(s, p) ==
    IF p = <<>> THEN s = <<>>
    ELSE IF Head(p) = "%"
         THEN \/ Like(s, Tail(p))
              \/ (s # <<>> /\ Like(Tail(s), p))
    ELSE IF s = <<>> THEN FALSE
    ELSE IF Head(p) = "_" THEN Like(Tail(s), Tail(p))
    ELSE Lower(Head(p)) = Lower(Head(s)) /\ Like(Tail(s), Tail(p))

\* f"%{keyword}%"
search_term(keyword) == <<"%">> \o keyword \o <<"%">>

\* Python True/False bound to a BOOLEAN (TINYINT(1)) column, and bool() back.
ToSql(b) == IF b THEN 1 ELSE 0
bool(x)  == x # 0

(***************************************************************************)
(* Entity conversions (src/models.py).                                     *)
(***************************************************************************)
\* A fetched row as the dictionary cursor returns it.
Record(id, row) ==
    [id |-> id, text |-> row.text, tags |-> row.tags, tool |-> row.tool,
     is_favorite |-> row.is_favorite]

from_dict(data) ==
    Prompt(data.id, data.text, parseTags(data.tags), data.tool,
           bool(data.is_favorite))

\* values with the tags and tool parameters bound in each other's place.
values_Swapped(prompt) ==
    [text |-> prompt.text, tags |-> prompt.tool, tool |-> join(prompt.tags),
     is_favorite |-> ToSql(prompt.is_favorite)]

\* The column values both INSERT and UPDATE bind for a prompt.
values(prompt) ==
    [text |-> prompt.text, tags |-> join(prompt.tags), tool |-> prompt.tool,
     is_favorite |-> ToSql(prompt.is_favorite)]

(***************************************************************************)
(* The storage layer (src/database.py).  A storage state s is              *)
(*   connection : "None" (handle unset), "open", or "lost" (handle set,    *)
(*                the server connection gone);                             *)
(*   schema     : whether the table `prompts` exists;                      *)
(*   table      : id -> row, the rows of `prompts`;                        *)
(*   nextId     : the table's AUTO_INCREMENT counter.                      *)
(* Each operation takes a fault f, the failure the environment injects     *)
(* into the statement:                                                     *)
(*   "none"      the statement executes and commits;                       *)
(*   "stmt"      execute() or commit() raises Error, the connection stays  *)
(*               usable and rollback() succeeds;                           *)
(*   "drop"      the connection dies during execute(), which raises Error; *)
(*               rollback() finds no open transaction and returns;         *)
(*   "dropRaise" as "drop", but rollback() itself raises.                  *)
(* A statement against a missing table fails as "stmt" does.               *)
(* An operation returns [s |-> the state after it, ret |-> its result],    *)
(* ret = Raised when an exception leaves the method.                       *)
(***************************************************************************)
Faults == {"none", "stmt", "drop", "dropRaise"}

\* The faults that differ for a read: it has no rollback().
ReadFaults == {"none", "stmt", "drop"}

\* The faults of a read followed by a write: the write is issued only when
\* the read was executed.
FaultPairs == {ff \in ReadFaults \X Faults : ff[1] = "none" \/ ff[2] = "none"}

State == [connection |-> connection, schema |-> schema, table |-> table,
          nextId |-> nextId]

Dropped(s) == [s EXCEPT !.connection = "lost"]

\* The fault a statement actually meets.
Met(s, f) == IF f = "none" /\ ~s.schema THEN "stmt" ELSE f

\* The rows in the order the table returns them (primary-key order).
RECURSIVE SortedIds(_)
SortedIds(ids) ==
    IF ids = {} THEN <<>>
    ELSE LET m == CHOOSE i \in ids : \A j \in ids : i <= j
         IN  <<m>> \o SortedIds(ids \ {m})

FetchAll(s, ids) ==
    LET order == SortedIds(ids)
    IN  [n \in 1..Len(order) |-> from_dict(Record(order[n], s.table[order[n]]))]

\* A write whose statement failed: except-branch with rollback().
FailedWrite(s, f, failure) ==
    CASE f = "stmt"      -> [s |-> s, ret |-> failure]
      [] f = "drop"      -> [s |-> Dropped(s), ret |-> failure]
      [] f = "dropRaise" -> [s |-> Dropped(s), ret |-> Raised]

\* A read whose statement failed: except-branch without rollback().
FailedRead(s, f, failure) ==
    IF f = "stmt" THEN [s |-> s, ret |-> failure]
    ELSE [s |-> Dropped(s), ret |-> failure]

\* The lines create_table prints.
NoConnectionMsg == "Cannot create table: No database connection."
CreatedMsg      == "Table 'prompts' checked/created successfully."
CreateErrorMsg  == "Error creating table"

\* create_table whose statement is CREATE TABLE without IF NOT EXISTS: it
\* fails when the table exists.
create_table_NoIfNotExists(s, f) ==
    IF s.connection = "None"
    THEN [s |-> s, ret |-> None, printed |-> NoConnectionMsg]
    ELSE IF s.connection = "lost"
    THEN [s |-> s, ret |-> Raised, printed |-> ""]
    ELSE IF f = "none" /\ ~s.schema
    THEN [s |-> [s EXCEPT !.schema = TRUE], ret |-> None,
          printed |-> CreatedMsg]
    ELSE [s |-> FailedRead(s, IF f = "none" THEN "stmt" ELSE f, None).s,
          ret |-> None, printed |-> CreateErrorMsg]

\* CREATE TABLE IF NOT EXISTS: an existing table and its rows are left as
\* they are.  `printed` is the line the method prints.
create_table(s, f) ==
    IF s.connection = "None"
    THEN [s |-> s, ret |-> None, printed |-> NoConnectionMsg]
    ELSE IF s.connection = "lost"
    THEN [s |-> s, ret |-> Raised, printed |-> ""]
    ELSE IF f = "none"
    THEN [s |-> [s EXCEPT !.schema = TRUE], ret |-> None,
          printed |-> CreatedMsg]
    ELSE [s |-> FailedRead(s, f, None).s, ret |-> None,
          printed |-> CreateErrorMsg]

insert_prompt(s, prompt, f) ==
    IF s.connection = "None" THEN [s |-> s, ret |-> None]
    ELSE IF s.connection = "lost" THEN [s |-> s, ret |-> Raised]
    ELSE IF Met(s, f) = "none"
    THEN [s   |-> [s EXCEPT !.table = [i \in DOMAIN s.table \cup {s.nextId} |->
                                        IF i = s.nextId THEN values(prompt)
                                        ELSE s.table[i]],
                            !.nextId = s.nextId + 1],
          ret |-> IntV(s.nextId)]
    ELSE FailedWrite(s, Met(s, f), None)

get_prompt_by_id(s, prompt_id, f) ==
    IF s.connection = "None" THEN [s |-> s, ret |-> None]
    ELSE IF s.connection = "lost" THEN [s |-> s, ret |-> Raised]
    ELSE IF Met(s, f) = "none"
    THEN [s   |-> s,
          ret |-> IF prompt_id \in DOMAIN s.table
                  THEN ObjV(from_dict(Record(prompt_id, s.table[prompt_id])))
                  ELSE None]
    ELSE FailedRead(s, Met(s, f), None)

\* cursor.rowcount of the UPDATE: the connection is opened without the
\* FOUND_ROWS client flag, so it counts the rows the statement changed.
UpdateRowcount(s, prompt) ==
    IF prompt.id \in DOMAIN s.table /\ s.table[prompt.id] # values(prompt)
    THEN 1 ELSE 0

\* update_prompt whose statement inserts the row when no row has the id.
update_prompt_Upsert(s, prompt, f) ==
    IF s.connection = "None" THEN [s |-> s, ret |-> BoolV(FALSE)]
    ELSE IF prompt.id = NoId THEN [s |-> s, ret |-> BoolV(FALSE)]
    ELSE IF s.connection = "lost" THEN [s |-> s, ret |-> Raised]
    ELSE IF Met(s, f) = "none"
    THEN [s   |-> [s EXCEPT !.table = [i \in DOMAIN s.table \cup {prompt.id} |->
                                        IF i = prompt.id THEN values(prompt)
                                        ELSE s.table[i]]],
          ret |-> BoolV(UpdateRowcount(s, prompt) > 0)]
    ELSE FailedWrite(s, Met(s, f), BoolV(FALSE))

update_prompt(s, prompt, f) ==
    IF s.connection = "None" THEN [s |-> s, ret |-> BoolV(FALSE)]
    ELSE IF prompt.id = NoId THEN [s |-> s, ret |-> BoolV(FALSE)]
    ELSE IF s.connection = "lost" THEN [s |-> s, ret |-> Raised]
    ELSE IF Met(s, f) = "none"
    THEN [s   |-> [s EXCEPT !.table = [i \in DOMAIN s.table |->
                                        IF i = prompt.id THEN values(prompt)
                                        ELSE s.table[i]]],
          ret |-> BoolV(UpdateRowcount(s, prompt) > 0)]
    ELSE FailedWrite(s, Met(s, f), BoolV(FALSE))

\* delete_prompt that reports success whenever the statement ran.
delete_prompt_AlwaysTrue(s, prompt_id, f) ==
    IF s.connection = "None" THEN [s |-> s, ret |-> BoolV(FALSE)]
    ELSE IF s.connection = "lost" THEN [s |-> s, ret |-> Raised]
    ELSE IF Met(s, f) = "none"
    THEN [s   |-> [s EXCEPT !.table = [i \in DOMAIN s.table \ {prompt_id} |->
                                        s.table[i]]],
          ret |-> BoolV(TRUE)]
    ELSE FailedWrite(s, Met(s, f), BoolV(FALSE))

delete_prompt(s, prompt_id, f) ==
    IF s.connection = "None" THEN [s |-> s, ret |-> BoolV(FALSE)]
    ELSE IF s.connection = "lost" THEN [s |-> s, ret |-> Raised]
    ELSE IF Met(s, f) = "none"
    THEN [s   |-> [s EXCEPT !.table = [i \in DOMAIN s.table \ {prompt_id} |->
                                        s.table[i]]],
          ret |-> BoolV(Cardinality(DOMAIN s.table \cap {prompt_id}) > 0)]
    ELSE FailedWrite(s, Met(s, f), BoolV(FALSE))

\* get_all_prompts without the check of the connection handle.
get_all_prompts_NoGuard(s, f) ==
    IF s.connection # "open" THEN [s |-> s, ret |-> Raised]
    ELSE IF Met(s, f) = "none"
    THEN [s |-> s, ret |-> ListV(FetchAll(s, DOMAIN s.table))]
    ELSE FailedRead(s, Met(s, f), ListV(<<>>))

get_all_prompts(s, f) ==
    IF s.connection = "None" THEN [s |-> s, ret |-> ListV(<<>>)]
    ELSE IF s.connection = "lost" THEN [s |-> s, ret |-> Raised]
    ELSE IF Met(s, f) = "none"
    THEN [s |-> s, ret |-> ListV(FetchAll(s, DOMAIN s.table))]
    ELSE FailedRead(s, Met(s, f), ListV(<<>>))

\* WHERE text LIKE %s OR tags LIKE %s OR tool LIKE %s
Where(row, term) ==
    Like(row.text, term) \/ Like(row.tags, term) \/ Like(row.tool, term)

search_prompts(s, keyword, f) ==
    IF s.connection = "None" THEN [s |-> s, ret |-> ListV(<<>>)]
    ELSE IF s.connection = "lost" THEN [s |-> s, ret |-> Raised]
    ELSE IF Met(s, f) = "none"
    THEN [s   |-> s,
          ret |-> ListV(FetchAll(s, {i \in DOMAIN s.table :
                                       Where(s.table[i], search_term(keyword))}))]
    ELSE FailedRead(s, Met(s, f), ListV(<<>>))

(***************************************************************************)
(* The service layer (src/services.py).  An exception raised by a storage  *)
(* call leaves the service method at that call.                            *)
(***************************************************************************)
add_prompt(s, text, tags, tool, f) ==
    insert_prompt(s, Prompt(NoId, text, tags, tool, FALSE), f)

get_prompt(s, prompt_id, f) == get_prompt_by_id(s, prompt_id, f)

\* Service_update_prompt that leaves the tool of the loaded entity.
Service_update_prompt_KeepsTool(s, prompt_id, text, tags, tool, is_favorite, f1, f2) ==
    LET got == get_prompt_by_id(s, prompt_id, f1)
    IN  IF got.ret = Raised THEN got
        ELSE IF got.ret.kind = "Prompt"
        THEN update_prompt(got.s,
                           [got.ret.val EXCEPT !.text = text, !.tags = tags,
                                               !.is_favorite = is_favorite],
                           f2)
        ELSE [s |-> got.s, ret |-> BoolV(FALSE)]

Service_update_prompt(s, prompt_id, text, tags, tool, is_favorite, f1, f2) ==
    LET got == get_prompt_by_id(s, prompt_id, f1)
    IN  IF got.ret = Raised THEN got
        ELSE IF got.ret.kind = "Prompt"
        THEN update_prompt(got.s,
                           [got.ret.val EXCEPT !.text = text, !.tags = tags,
                                               !.tool = tool,
                                               !.is_favorite = is_favorite],
                           f2)
        ELSE [s |-> got.s, ret |-> BoolV(FALSE)]

Service_delete_prompt(s, prompt_id, f) == delete_prompt(s, prompt_id, f)

list_all_prompts(s, f) == get_all_prompts(s, f)

\* `if keyword:` is false for None and for the empty string.
Truthy(keyword) == keyword.kind = "str" /\ keyword.val # <<>>

\* Retain with the comparison inverted.
Retain_Inverted(prompts, is_favorite) ==
    SelectSeq(prompts, LAMBDA p : p.is_favorite # is_favorite)

\* [p for p in prompts if p.is_favorite == is_favorite]
Retain(prompts, is_favorite) ==
    SelectSeq(prompts, LAMBDA p : p.is_favorite = is_favorite)

search_and_filter_prompts(s, keyword, is_favorite, f) ==
    LET base == IF Truthy(keyword) THEN search_prompts(s, keyword.val, f)
                ELSE get_all_prompts(s, f)
    IN  IF base.ret = Raised THEN base
        ELSE IF is_favorite.kind # "None"
        THEN [s |-> base.s, ret |-> ListV(Retain(base.ret.val, is_favorite.val))]
        ELSE base

\* toggle_favorite_status that returns the status it loaded.
toggle_favorite_status_ReturnsOld(s, prompt_id, f1, f2) ==
    LET got == get_prompt_by_id(s, prompt_id, f1)
    IN  IF got.ret = Raised THEN got
        ELSE IF got.ret.kind = "Prompt"
        THEN LET prompt == [got.ret.val EXCEPT
                              !.is_favorite = ~got.ret.val.is_favorite]
                 upd    == update_prompt(got.s, prompt, f2)
             IN  IF upd.ret = Raised THEN upd
                 ELSE IF upd.ret.val
                 THEN [s |-> upd.s, ret |-> BoolV(got.ret.val.is_favorite)]
                 ELSE [s |-> upd.s, ret |-> None]
        ELSE [s |-> got.s, ret |-> None]

toggle_favorite_status(s, prompt_id, f1, f2) ==
    LET got == get_prompt_by_id(s, prompt_id, f1)
    IN  IF got.ret = Raised THEN got
        ELSE IF got.ret.kind = "Prompt"
        THEN LET prompt == [got.ret.val EXCEPT
                              !.is_favorite = ~got.ret.val.is_favorite]
                 upd    == update_prompt(got.s, prompt, f2)
             IN  IF upd.ret = Raised THEN upd
                 ELSE IF upd.ret.val
                 THEN [s |-> upd.s, ret |-> BoolV(prompt.is_favorite)]
                 ELSE [s |-> upd.s, ret |-> None]
        ELSE [s |-> got.s, ret |-> None]

(***************************************************************************)
(* Inputs.                                                                 *)
(***************************************************************************)
BoundedSeq(S, n) == UNION {[1..k -> S] : k \in 0..n}

\* Tags: a clean one, another, an empty one, a blank one, one with a leading
\* blank, one with a comma.
TagVals == {<<"a">>, <<"b">>, <<>>, <<" ">>, <<" ", "b">>, <<"a", ",", "b">>}

\* The (text, tags, tool) triples the callers supply: clean tags; an empty
\* and a blank-led tag; a tag holding a comma; no tags.
Inputs ==
    { [text |-> <<"A", "b">>, tags |-> << <<"a">>, <<"b">> >>, tool |-> <<>>],
      [text |-> <<"c">>, tags |-> << <<>>, <<" ", "b">> >>, tool |-> <<"c">>],
      [text |-> <<"A", "b">>, tags |-> << <<"a", ",", "b">> >>, tool |-> <<"c">>],
      [text |-> <<"c">>, tags |-> <<>>, tool |-> <<>>] }

\* A failing statement never reads the values bound to it, so the failure
\* paths are taken with one input each.
FaultInput   == [text |-> <<"c">>, tags |-> <<>>, tool |-> <<>>]
FaultKeyword == StrV(<<"a">>)

Ids       == 1..MaxId
Keywords  == {None, StrV(<<>>), StrV(<<"a">>), StrV(<<"B", ",">>),
              StrV(<<"_">>), StrV(<<"%">>)}
Favorites == {None, BoolV(TRUE), BoolV(FALSE)}

(***************************************************************************)
(* The state machine.  `last` records the last call: its name, arguments,  *)
(* result, and whether every statement it issued was executed (ok).        *)
(***************************************************************************)
Executes(s, f) == s.connection = "open" /\ Met(s, f) = "none"

\* No caller catches an exception (src/main.py:177-219): once a call has
\* raised, the process has ended and no further call is made.
Running == last.ret # Raised

Apply(op, arg, r, ok) ==
    /\ Running
    /\ connection' = r.s.connection
    /\ schema' = r.s.schema
    /\ table' = r.s.table
    /\ nextId' = r.s.nextId
    /\ last' = [op |-> op, arg |-> arg, ret |-> r.ret, ok |-> ok]

\* PromptDB.__init__: connect(), then create_table().
Init ==
    /\ connection \in {"None", "open"}
    /\ schema \in BOOLEAN
    /\ connection = "None" => ~schema
    /\ table = <<>>
    /\ nextId = 1
    /\ last = [op |-> "__init__", arg |-> None, ret |-> None,
               ok |-> (connection = "open" /\ schema)]

\* The server connection goes away between two calls.
ConnectionLost ==
    /\ Running
    /\ connection = "open"
    /\ connection' = "lost"
    /\ last' = [op |-> "connection_lost", arg |-> None, ret |-> None,
                ok |-> FALSE]
    /\ UNCHANGED <<schema, table, nextId>>

CreateTable ==
    \E f \in ReadFaults :
        Apply("create_table", None, create_table(State, f),
              create_table(State, f).printed = CreatedMsg)

InsertPrompt ==
    \E in \in Inputs, is_favorite \in BOOLEAN, f \in Faults :
        /\ nextId <= MaxId
        /\ f # "none" => (in = FaultInput /\ ~is_favorite)
        /\ LET prompt == Prompt(NoId, in.text, in.tags, in.tool, is_favorite)
           IN  Apply("insert_prompt", prompt, insert_prompt(State, prompt, f),
                     Executes(State, f))

GetPromptById ==
    \E prompt_id \in Ids, f \in ReadFaults :
        Apply("get_prompt_by_id", prompt_id,
              get_prompt(State, prompt_id, f), Executes(State, f))

UpdatePrompt ==
    \E id \in Ids \cup {NoId}, in \in Inputs, is_favorite \in BOOLEAN,
       f \in Faults :
        /\ f # "none" => (in = FaultInput /\ ~is_favorite)
        /\ LET prompt == Prompt(id, in.text, in.tags, in.tool, is_favorite)
           IN  Apply("update_prompt", prompt, update_prompt(State, prompt, f),
                     Executes(State, f))

DeletePrompt ==
    \E prompt_id \in Ids, f \in Faults :
        Apply("delete_prompt", prompt_id,
              Service_delete_prompt(State, prompt_id, f), Executes(State, f))

GetAllPrompts ==
    \E f \in ReadFaults :
        Apply("get_all_prompts", None, list_all_prompts(State, f),
              Executes(State, f))

SearchPrompts ==
    \E keyword \in Keywords, f \in ReadFaults :
        /\ keyword.kind = "str"
        /\ f # "none" => keyword = FaultKeyword
        /\ Apply("search_prompts", keyword,
                 search_prompts(State, keyword.val, f), Executes(State, f))

AddPrompt ==
    \E in \in Inputs, f \in Faults :
        /\ nextId <= MaxId
        /\ f # "none" => in = FaultInput
        /\ Apply("add_prompt", Prompt(NoId, in.text, in.tags, in.tool, FALSE),
                 add_prompt(State, in.text, in.tags, in.tool, f),
                 Executes(State, f))

ServiceUpdatePrompt ==
    \E id \in Ids, in \in Inputs, is_favorite \in BOOLEAN, ff \in FaultPairs :
        /\ ff # <<"none", "none">> => (in = FaultInput /\ ~is_favorite)
        /\ Apply("Service_update_prompt",
                 Prompt(id, in.text, in.tags, in.tool, is_favorite),
                 Service_update_prompt(State, id, in.text, in.tags, in.tool,
                                       is_favorite, ff[1], ff[2]),
                 Executes(State, ff[1]) /\ ff[2] = "none")

SearchAndFilterPrompts ==
    \E keyword \in Keywords, is_favorite \in Favorites, f \in ReadFaults :
        /\ f # "none" => (keyword = FaultKeyword /\ is_favorite = None)
        /\ Apply("search_and_filter_prompts",
                 [keyword |-> keyword, is_favorite |-> is_favorite],
                 search_and_filter_prompts(State, keyword, is_favorite, f),
                 Executes(State, f))

ToggleFavoriteStatus ==
    \E prompt_id \in Ids, ff \in FaultPairs :
        Apply("toggle_favorite_status", prompt_id,
              toggle_favorite_status(State, prompt_id, ff[1], ff[2]),
              Executes(State, ff[1]) /\ ff[2] = "none")

Next ==
    \/ ConnectionLost
    \/ CreateTable
    \/ InsertPrompt
    \/ GetPromptById
    \/ UpdatePrompt
    \/ DeletePrompt
    \/ GetAllPrompts
    \/ SearchPrompts
    \/ AddPrompt
    \/ ServiceUpdatePrompt
    \/ SearchAndFilterPrompts
    \/ ToggleFavoriteStatus

Spec == Init /\ [][Next]_vars

(***************************************************************************)
(* The tag conversions on their own: a tag sequence is joined as insert    *)
(* and update join it, and the joined string is parsed as from_dict parses *)
(* it.  `last` holds the sequence, then the string, then the parsed list.  *)
(***************************************************************************)
InitTags ==
    /\ connection = "None"
    /\ schema = FALSE
    /\ table = <<>>
    /\ nextId = 1
    /\ \E tags \in BoundedSeq(TagVals, MaxTags) :
          last = [op |-> "tags", arg |-> tags, ret |-> None, ok |-> TRUE]

JoinTags ==
    /\ last.op = "tags"
    /\ last' = [op |-> "join", arg |-> last.arg, ret |-> StrV(join(last.arg)),
                ok |-> TRUE]
    /\ UNCHANGED <<connection, schema, table, nextId>>

ParseTags ==
    /\ last.op = "join"
    /\ last' = [op |-> "parse", arg |-> last.arg,
                ret |-> ListV(parseTags(last.ret.val)), ok |-> TRUE]
    /\ UNCHANGED <<connection, schema, table, nextId>>

NextTags ==
    \/ JoinTags
    \/ ParseTags

SpecTags == InitTags /\ [][NextTags]_vars

(***************************************************************************)
(* Properties.                                                             *)
(***************************************************************************)
\* What get_prompt_by_id returns in the current state when its statement
\* is executed.
GetIn(s, prompt_id) == get_prompt_by_id(s, prompt_id, "none").ret
GetNow(prompt_id) == GetIn(State, prompt_id)

Chars(str) == {str[n] : n \in 1..Len(str)}

\* No tag is empty and no tag holds a comma.
NoEmptyNoComma(tags) ==
    \A n \in 1..Len(tags) : tags[n] # <<>> /\ "," \notin Chars(tags[n])

\* No tag begins or ends with a blank.
NoOuterBlank(tags) ==
    \A n \in 1..Len(tags) :
        tags[n] # <<>> => (tags[n][1] # " " /\ tags[n][Len(tags[n])] # " ")

CleanTags(tags) == NoEmptyNoComma(tags) /\ NoOuterBlank(tags)

Inserted == last.op = "insert_prompt" /\ last.ret.kind = "int"

\* C1 as stated: for every entity p, once insert(p) has returned id k,
\* getById(k) returns p with id k -- text, tags, tool and is_favorite equal.
C1_InsertThenGet_AnyTags ==
    Inserted =>
        GetNow(last.ret.val) =
            ObjV(Prompt(last.ret.val, last.arg.text, last.arg.tags,
                        last.arg.tool, last.arg.is_favorite))

\* C1 amended: the same, for every entity p whose tags are all non-empty,
\* comma-free and without a leading or trailing blank.
C1_InsertThenGet ==
    (Inserted /\ CleanTags(last.arg.tags)) =>
        GetNow(last.ret.val) =
            ObjV(Prompt(last.ret.val, last.arg.text, last.arg.tags,
                        last.arg.tool, last.arg.is_favorite))

\* An insert of a favorite entity with two clean tags has returned its id.
C1_Witness ==
    /\ Inserted
    /\ CleanTags(last.arg.tags)
    /\ Len(last.arg.tags) = 2
    /\ last.arg.is_favorite

\* C2 as stated: a tag sequence with no empty and no comma-holding element
\* is returned unchanged by parsing its comma-joined string.
C2_TagRoundTrip_AnyBlanks ==
    (last.op = "parse" /\ NoEmptyNoComma(last.arg)) =>
        last.ret.val = last.arg

\* C2 amended: a tag sequence with no empty element, no element holding a
\* comma and no element beginning or ending with a blank is returned
\* unchanged, same elements in the same order, by parsing its joined string.
C2_TagRoundTrip ==
    (last.op = "parse" /\ CleanTags(last.arg)) =>
        last.ret.val = last.arg

\* Two different clean tags have been joined and parsed.
C2_Witness ==
    /\ last.op = "parse"
    /\ CleanTags(last.arg)
    /\ Len(last.arg) >= 2
    /\ last.arg[1] # last.arg[2]

(***************************************************************************)
(* Steps: the call that leads from one state to the next is the one        *)
(* recorded in last'.                                                      *)
(***************************************************************************)
Called(op) == last'.op = op /\ last' # last

RowIds(list) == {list[n].id : n \in 1..Len(list)}

\* Every row but the one with this id is as it was.
OthersKept(id) ==
    \A j \in DOMAIN table : j # id => (j \in DOMAIN table' /\ table'[j] = table[j])

ToggleReturned == Called("toggle_favorite_status") /\ last'.ret.kind = "bool"

\* What every successful toggle does to is_favorite, text and tool, and
\* the two toggles that follow a fresh insert.
ToggleCore ==
    /\ ToggleReturned =>
          LET id == last'.arg
          IN  /\ id \in DOMAIN table /\ DOMAIN table' = DOMAIN table
              /\ last'.ret.val = ~bool(table[id].is_favorite)
              /\ table'[id].is_favorite = ToSql(last'.ret.val)
              /\ GetIn(State', id).val.is_favorite = last'.ret.val
              /\ table'[id].text = table[id].text
              /\ table'[id].tool = table[id].tool
              /\ OthersKept(id)
    /\ ( /\ last.op \in {"insert_prompt", "add_prompt"}
         /\ last.ret.kind = "int"
         /\ ~last.arg.is_favorite
         /\ Called("toggle_favorite_status")
         /\ last'.arg = last.ret.val
         /\ last'.ok ) => last'.ret = BoolV(TRUE)
    /\ ( /\ last.op = "toggle_favorite_status"
         /\ last.ret = BoolV(TRUE)
         /\ Called("toggle_favorite_status")
         /\ last'.arg = last.arg
         /\ last'.ok ) => last'.ret = BoolV(FALSE)

\* C3 as stated: a toggle of a freshly inserted non-favorite prompt returns
\* true and getById shows true, a second toggle returns false; each
\* successful toggle returns and stores the negation of the stored value and
\* leaves text, tags and tool of the row as they were.
C3_Toggle_RowKept ==
    [][ /\ ToggleCore
        /\ ToggleReturned => table'[last'.arg].tags = table[last'.arg].tags
      ]_vars

\* C3 amended: the same, except that the tags are left as getById returns
\* them: the stored tags string is rewritten as the join of its parsed tags
\* (entries trimmed, empty entries dropped).
C3_Toggle ==
    [][ /\ ToggleCore
        /\ ToggleReturned =>
              /\ table'[last'.arg].tags = join(parseTags(table[last'.arg].tags))
              /\ parseTags(table'[last'.arg].tags) = parseTags(table[last'.arg].tags)
      ]_vars

\* A toggle has returned false for a row whose tags were stored untrimmed.
C3_Witness ==
    /\ last.op = "toggle_favorite_status"
    /\ last.ret = BoolV(FALSE)
    /\ last.arg \in DOMAIN table
    /\ table[last.arg].tags = <<"b">>

\* C4: searchAndFilterPrompts(keyword, isFavorite) returns the rows of
\* searchByKeyword(keyword) when the keyword is present and non-empty and of
\* listAll() otherwise, all of them when isFavorite is absent and otherwise
\* exactly those whose is_favorite equals isFavorite.
C4_FilterComposition ==
    (last.op = "search_and_filter_prompts" /\ last.ok) =>
        LET keyword == last.arg.keyword
            wanted  == last.arg.is_favorite
            base    == IF keyword # None /\ keyword # StrV(<<>>)
                       THEN search_prompts(State, keyword.val, "none").ret.val
                       ELSE get_all_prompts(State, "none").ret.val
            kept    == {n \in 1..Len(base) :
                           wanted = None \/ (base[n].is_favorite <=> wanted.val)}
        IN  /\ last.ret.kind = "list"
            /\ {last.ret.val[n] : n \in 1..Len(last.ret.val)} =
               {base[n] : n \in kept}
            /\ Len(last.ret.val) = Cardinality(kept)

\* A keyword search kept one favorite row and dropped a matching row that
\* is not a favorite.
C4_Witness ==
    /\ last.op = "search_and_filter_prompts"
    /\ last.ok
    /\ last.arg.keyword = StrV(<<"a">>)
    /\ last.arg.is_favorite = BoolV(TRUE)
    /\ Len(last.ret.val) = 1
    /\ Len(search_prompts(State, <<"a">>, "none").ret.val) = 2

\* C5: delete(id) returns true exactly when a row with that id existed;
\* after it returned true getById(id) is absent and listAll does not hold
\* the id; when it returns false the table is unchanged.
C5_DeleteThenGet ==
    [][ Called("delete_prompt") =>
          LET id == last'.arg
          IN  /\ last'.ok => last'.ret = BoolV(id \in DOMAIN table)
              /\ last'.ret = BoolV(TRUE) =>
                    /\ id \in DOMAIN table
                    /\ GetIn(State', id) = None
                    /\ id \notin RowIds(get_all_prompts(State', "none").ret.val)
                    /\ OthersKept(id)
              /\ last'.ret = BoolV(FALSE) => table' = table
      ]_vars

\* A delete has returned true and left another row in the table.
C5_Witness ==
    /\ last.op = "delete_prompt"
    /\ last.ret = BoolV(TRUE)
    /\ table # <<>>

\* C6: with a working connection update(entity) returns false and writes
\* nothing when entity.id is absent or names no row, and returns true for an
\* entity whose id names a row and whose write is committed, whatever the
\* new values are.
C6_UpdateReturn ==
    [][ (Called("update_prompt") /\ connection = "open" /\ connection' = "open") =>
          LET id == last'.arg.id
          IN  /\ (id = NoId \/ id \notin DOMAIN table) =>
                    (last'.ret = BoolV(FALSE) /\ table' = table)
              /\ (last'.ok /\ id \in DOMAIN table) => last'.ret = BoolV(TRUE)
      ]_vars

ServiceUpdated == Called("Service_update_prompt")

\* updatePrompt on an id with no row returns failure and writes nothing.
UpdateMissing ==
    (ServiceUpdated /\ connection # "lost" /\ last'.arg.id \notin DOMAIN table) =>
        (last'.ret = BoolV(FALSE) /\ table' = table)

\* getPrompt after the update returns exactly the supplied values.
UpdateReplaces ==
    GetIn(State', last'.arg.id) = ObjV(last'.arg) /\ OthersKept(last'.arg.id)

\* C7 as stated: updatePrompt fails without writing when no row has the id;
\* when a row has it and the persist succeeds, getPrompt(id) returns the id
\* with exactly the four supplied values.
C7_FullReplace_AnyTags ==
    [][ /\ UpdateMissing
        /\ (ServiceUpdated /\ last'.ok /\ last'.arg.id \in DOMAIN table) =>
              UpdateReplaces
      ]_vars

\* C7 amended: the same, for supplied tags that are all non-empty,
\* comma-free and without a leading or trailing blank.
C7_FullReplace ==
    [][ /\ UpdateMissing
        /\ ( /\ ServiceUpdated
             /\ last'.ok
             /\ last'.arg.id \in DOMAIN table
             /\ CleanTags(last'.arg.tags) ) => UpdateReplaces
      ]_vars

\* An update has replaced a row by a favorite entity with two clean tags.
C7_Witness ==
    /\ last.op = "Service_update_prompt"
    /\ last.ok
    /\ last.ret = BoolV(TRUE)
    /\ last.arg.id \in DOMAIN table
    /\ Len(last.arg.tags) = 2
    /\ CleanTags(last.arg.tags)
    /\ last.arg.is_favorite

\* C8: no storage operation raises, whatever the connection state and the
\* statement failure.
C8_NoException == last.ret # Raised

\* The result each operation gives when it fails.
FailureValue(op) ==
    CASE op \in {"insert_prompt", "get_prompt_by_id", "add_prompt",
                 "toggle_favorite_status", "create_table"} -> None
      [] op \in {"update_prompt", "delete_prompt", "Service_update_prompt"}
            -> BoolV(FALSE)
      [] op \in {"get_all_prompts", "search_prompts",
                 "search_and_filter_prompts"} -> ListV(<<>>)

\* C9: once the initial connect has failed the handle stays unset, and every
\* operation returns its failure value and leaves the store untouched.
C9_ShortCircuit ==
    [][ connection = "None" =>
          /\ connection' = "None"
          /\ <<schema, table, nextId>>' = <<schema, table, nextId>>
          /\ last'.ret = FailureValue(last'.op)
      ]_vars

\* Without a connection a toggle has been asked for and returned absent.
C9_Witness ==
    /\ connection = "None"
    /\ last.op = "toggle_favorite_status"
    /\ last.ret = None

\* keyword is a substring of str, ignoring case.
Contains(keyword, str) ==
    \E k \in 0..(Len(str) - Len(keyword)) :
        \A n \in 1..Len(keyword) : Lower(str[k + n]) = Lower(keyword[n])

\* C10: searchByKeyword(keyword) returns exactly the rows whose text, stored
\* tags string or tool holds the keyword as a substring, ignoring case,
\* also for keywords holding % or _.
C10_SearchIsSubstring ==
    (last.op = "search_prompts" /\ last.ok) =>
        RowIds(last.ret.val) =
            {i \in DOMAIN table :
                \/ Contains(last.arg.val, table[i].text)
                \/ Contains(last.arg.val, table[i].tags)
                \/ Contains(last.arg.val, table[i].tool)}

\* C11: a schema bootstrap called when the table exists leaves the one
\* table `prompts` and every row of it as they were, and does not fail
\* because the table exists: when its statement is executed it reports
\* success.
C11_IdempotentSchema ==
    [][ /\ (connection = "open" /\ schema) =>
              create_table(State, "none") =
                  [s |-> State, ret |-> None, printed |-> CreatedMsg]
        /\ (Called("create_table") /\ schema) =>
              /\ schema'
              /\ table' = table
              /\ nextId' = nextId
      ]_vars

\* The bootstrap has run again, successfully, over a table that holds rows.
C11_Witness ==
    /\ last.op = "create_table"
    /\ last.ok
    /\ schema
    /\ table # <<>>

\* C12: when the prompt exists but the update issued by
\* toggleFavoriteStatus is not persisted, toggleFavoriteStatus returns
\* absent and the stored is_favorite of the row is as it was.
C12_ToggleFailedPersist ==
    [][ ( /\ Called("toggle_favorite_status")
          /\ connection = "open"
          /\ last'.arg \in DOMAIN table
          /\ ~last'.ok ) =>
            /\ last'.ret = None
            /\ last'.arg \in DOMAIN table'
            /\ table'[last'.arg].is_favorite = table[last'.arg].is_favorite
      ]_vars

NonEmptyEntries(tags) == SelectSeq(tags, LAMBDA tag : tag # <<>>)

NoComma(tags) == \A n \in 1..Len(tags) : "," \notin Chars(tags[n])

\* No comma at either end of the string and no two commas side by side.
NoStrayComma(str) ==
    /\ str # <<>> => (str[1] # "," /\ str[Len(str)] # ",")
    /\ \A n \in 1..(Len(str) - 1) : ~(str[n] = "," /\ str[n + 1] = ",")

\* What is read back: no tag is empty, and clean tags come back one for
\* one, duplicates included.
ReadBack ==
    last.op = "parse" =>
        /\ \A n \in 1..Len(last.ret.val) : last.ret.val[n] # <<>>
        /\ CleanTags(last.arg) => last.ret.val = last.arg

C14_Identifiers ==
    [][ /\ ( /\ (Called("insert_prompt") \/ Called("add_prompt"))
             /\ last'.ret.kind = "int" ) =>
              /\ last'.ret.val \notin DOMAIN table
              /\ last'.ret.val >= nextId
              /\ DOMAIN table' = DOMAIN table \cup {last'.ret.val}
              /\ OthersKept(last'.ret.val)
        /\ ( \/ Called("update_prompt")
             \/ Called("Service_update_prompt")
             \/ Called("toggle_favorite_status") ) =>
              DOMAIN table' = DOMAIN table
        /\ \A i \in DOMAIN table' : i < nextId'
      ]_vars

\* After a delete, an insert has returned an id that no row ever had, and
\* an update has then been applied to that row.
C14_Witness ==
    /\ last.op \in {"update_prompt", "Service_update_prompt",
                    "toggle_favorite_status"}
    /\ last.ok
    /\ DOMAIN table = {2}
    /\ nextId = 3

====
